---- MODULE Spec2Model ----
(***************************************************************************)
(* Schema management of cqlengine (cqlengine/management.py):               *)
(* create_keyspace, delete_keyspace, create_table and delete_table run by  *)
(* clients against one database catalog.                                   *)
(*                                                                         *)
(* A string is a sequence of tokens: every literal piece of a format       *)
(* template and every substituted value is one token, so that format,      *)
(* join and the substring test of the code are computed, not assumed.      *)
(***************************************************************************)
EXTENDS Naturals, Sequences, FiniteSets, TLC

\* ------------------------------------------------------------------ bounds

\* Longest column list of a model the statement builder is checked on.
MaxCols == 3

\* Number of calls the single client of the sequential specification makes.
MaxCalls == 3

\* ----------------------------------------------------------------- strings

\* Python's None (an unset clustering order).
None == "None"

Range(s) == {s[k] : k \in 1..Len(s)}

\* sep.join(parts), parts a sequence of strings.
RECURSIVE Join(_, _)
Join(parts, sep) ==
    IF parts = <<>> THEN <<>>
    ELSE IF Len(parts) = 1 THEN parts[1]
    ELSE parts[1] \o <<sep>> \o Join(Tail(parts), sep)

\* "sub in text" for a sub that is one literal of the text's template.
Contains(text, sub) == sub \in Range(text)

\* ------------------------------------------------------------------ models

\* A column descriptor of the model layer.
Column(name, type, pk, part, idx, order) ==
    [db_field_name |-> name, db_type |-> type, primary_key |-> pk,
     partition_key |-> part, index |-> idx, clustering_order |-> order]

\* col.get_column_def(): the DDL fragment of one column.
get_column_def(col) == <<"\"", col.db_field_name, "\" ", col.db_type>>

\* model._clustering_keys: the primary-key columns that are not partition
\* keys, in declaration order.
clustering_keys(model) ==
    SelectSeq(model.columns, LAMBDA c : c.primary_key /\ ~c.partition_key)

\* model._get_keyspace()
get_keyspace(model) == model.keyspace

\* model.column_family_name(include_keyspace=False)
raw_cf_name(model) == model.table

\* model.column_family_name(): a string, and the same as one catalog name.
cf_name(model) == <<get_keyspace(model), ".", raw_cf_name(model)>>

\* ------------------------------------------- create_table: the statement

\* The mutant files partition keys as clustering keys and the reverse.
add_column_m_swapped(acc, col) ==
    LET quoted == <<"\"", col.db_field_name, "\"">>
    IN [pkeys  |-> IF col.primary_key /\ ~col.partition_key
                   THEN Append(acc.pkeys, quoted) ELSE acc.pkeys,
        ckeys  |-> IF col.primary_key /\ col.partition_key
                   THEN Append(acc.ckeys, quoted) ELSE acc.ckeys,
        qtypes |-> Append(acc.qtypes, get_column_def(col))]

\* add_column (lines 78-83): one column added to the three lists pkeys,
\* ckeys, qtypes.
add_column(acc, col) ==
    LET quoted == <<"\"", col.db_field_name, "\"">>
    IN [pkeys  |-> IF col.primary_key /\ col.partition_key
                   THEN Append(acc.pkeys, quoted) ELSE acc.pkeys,
        ckeys  |-> IF col.primary_key /\ ~col.partition_key
                   THEN Append(acc.ckeys, quoted) ELSE acc.ckeys,
        qtypes |-> Append(acc.qtypes, get_column_def(col))]

\* for name, col in model._columns.items(): add_column(col)
RECURSIVE add_columns(_, _)
add_columns(acc, cols) ==
    IF cols = <<>> THEN acc
    ELSE add_columns(add_column(acc, Head(cols)), Tail(cols))

\* 'PRIMARY KEY (({}){})'.format(', '.join(pkeys),
\*                               ckeys and ', ' + ', '.join(ckeys) or '')
primary_key_clause(pkeys, ckeys) ==
    <<"PRIMARY KEY ((">> \o Join(pkeys, ", ") \o <<")">>
    \o (IF ckeys # <<>> THEN <<", ">> \o Join(ckeys, ", ") ELSE <<>>)
    \o <<")">>

\* "%s %s" % (c.db_field_name, c.clustering_order or 'ASC')
order_item(c) ==
    <<c.db_field_name, " ",
      IF c.clustering_order = None THEN "ASC" ELSE c.clustering_order>>

\* The mutant emits the clustering order only for a declared order.
with_qs_m_declared(model) ==
    LET keys  == clustering_keys(model)
        order == [k \in 1..Len(keys) |-> order_item(keys[k])]
        base  == << <<"read_repair_chance = ", model.read_repair_chance>> >>
    IN IF \E k \in 1..Len(keys) : keys[k].clustering_order # None
       THEN Append(base, <<"clustering order by (">> \o Join(order, ", ") \o <<")">>)
       ELSE base

\* with_qs (lines 91-95): the parts of the WITH clause.
with_qs(model) ==
    LET keys  == clustering_keys(model)
        order == [k \in 1..Len(keys) |-> order_item(keys[k])]
        base  == << <<"read_repair_chance = ", model.read_repair_chance>> >>
    IN IF order # <<>>
       THEN Append(base, <<"clustering order by (">> \o Join(order, ", ") \o <<")">>)
       ELSE base

\* The CREATE TABLE statement of lines 72-99.
create_table_query(model) ==
    LET acc    == add_columns([pkeys |-> <<>>, ckeys |-> <<>>, qtypes |-> <<>>],
                              model.columns)
        qtypes == Append(acc.qtypes, primary_key_clause(acc.pkeys, acc.ckeys))
        qs     == << <<"CREATE TABLE ">> \o cf_name(model),
                     <<"(">> \o Join(qtypes, ", ") \o <<")">>,
                     <<"WITH ">> \o Join(with_qs(model), " AND ") >>
    IN Join(qs, " ")

\* ---------------------------------------------- create_keyspace: statement

\* strategy_class, replication_factor, durable_writes and **replication_values
\* of one create_keyspace call.
KsArgs(class, factor, durable, extra) ==
    [strategy_class |-> class, replication_factor |-> factor,
     durable_writes |-> durable, replication_values |-> extra]

\* The defaults of the signature (line 9).
DefaultKsArgs == KsArgs("SimpleStrategy", 3, TRUE, <<>>)

\* The parameters of create_keyspace (line 9).
ParamNames == {"name", "strategy_class", "replication_factor", "durable_writes"}

\* A call create_keyspace(name, class, factor, durable, **keywords): the four
\* parameters given by position, then keyword arguments.
KsCall(class, factor, durable, keywords) ==
    [strategy_class |-> class, replication_factor |-> factor,
     durable_writes |-> durable, keywords |-> keywords]

DefaultKsCall == KsCall("SimpleStrategy", 3, TRUE, <<>>)

\* replication_map (lines 23-27): the base map updated with the extras.
replication_map(args) ==
    LET base  == [class |-> args.strategy_class,
                  replication_factor |-> args.replication_factor]
        extra == args.replication_values
    IN [k \in DOMAIN base \cup DOMAIN extra |->
          IF k \in DOMAIN extra THEN extra[k] ELSE base[k]]

\* The mutant emits the clause for every strategy.
durable_writes_clause_m_always(args) ==
    IF args.durable_writes THEN "true" ELSE "false"

\* The DURABLE_WRITES clause (lines 34-35), "" when it is left out.
durable_writes_clause(args) ==
    IF args.strategy_class # "SimpleStrategy"
    THEN (IF args.durable_writes THEN "true" ELSE "false")
    ELSE ""

\* json.dumps of one value of the map: a str in double quotes, an int in
\* digits. The maps here hold a str under 'class' and ints under every other
\* key.
Digits(n) == <<"0", "1", "2", "3", "4", "5", "6", "7", "8", "9">>[n + 1]

json_value(k, v) == IF k = "class" THEN <<"\"", v, "\"">> ELSE <<Digits(v)>>

\* json.dumps(map): the items in the dict's iteration order, which is the
\* sequence order of the map's keys.
json_dumps(map, order) ==
    <<"{">>
    \o Join([i \in 1..Len(order) |->
               <<"\"", order[i], "\"", ": ">> \o json_value(order[i], map[order[i]])],
            ", ")
    \o <<"}">>

\* text.replace('"', "'")
replace_quotes(text) ==
    [i \in 1..Len(text) |-> IF text[i] = "\"" THEN "'" ELSE text[i]]

\* The CREATE KEYSPACE statement of lines 29-35.
create_keyspace_query(name, args, order) ==
    <<"\n            CREATE KEYSPACE ", name, "\n            WITH REPLICATION = ">>
    \o replace_quotes(json_dumps(replication_map(args), order))
    \o <<"\n            ">>
    \o (IF durable_writes_clause(args) # ""
        THEN <<" AND DURABLE_WRITES = ", durable_writes_clause(args)>>
        ELSE <<>>)

\* -------------------------------------------------------------- statements

\* One DDL statement handed to execute(): what it is, the catalog names it
\* is about, and what it carries.
Stmt(kind, ks, table, index, body) ==
    [kind |-> kind, keyspace |-> ks, table |-> table, index |-> index,
     body |-> body]

\* idx_name (line 122)
idx_name(model, column) ==
    <<"index_", raw_cf_name(model), "_", column.db_field_name>>

\* '{}.{}'.format(raw_cf_name, idx_name) (line 123)
qualified_idx_name(model, column) ==
    <<raw_cf_name(model), ".">> \o idx_name(model, column)

\* indexes (line 119): the indexed columns, in declaration order.
indexed_columns(model) == SelectSeq(model.columns, LAMBDA c : c.index)

CreateKeyspaceStmt(name, args) ==
    Stmt("CREATE KEYSPACE", name, "", <<>>,
         [replication |-> replication_map(args),
          durable_writes |-> durable_writes_clause(args)])

DropKeyspaceStmt(name) == Stmt("DROP KEYSPACE", name, "", <<>>, <<>>)

CreateTableStmt(model) ==
    Stmt("CREATE TABLE", get_keyspace(model), raw_cf_name(model), <<>>,
         create_table_query(model))

\* The catalog reads of lines 20 and 42, 62-66 and 138-142, 111-115.
SelectKeyspaces == Stmt("SELECT keyspace_name", "", "", <<>>, <<>>)

SelectTables(ks) == Stmt("SELECT columnfamily_name", ks, "", <<>>, <<>>)

SelectIndexes(ks) == Stmt("SELECT index_name", ks, "", <<>>, <<>>)

DropTableStmt(model) ==
    Stmt("DROP TABLE", get_keyspace(model), raw_cf_name(model), <<>>, <<>>)

CreateIndexStmt(model, column) ==
    Stmt("CREATE INDEX", get_keyspace(model), raw_cf_name(model),
         idx_name(model, column), <<"(\"", column.db_field_name, "\")">>)

\* ------------------------------------------------------------ the database

\* No exception.
NoError == <<>>

\* The messages of the database's rejections.
AlreadyExistsCF == "Cannot add already existing column family"

ErrTableExists(ks, table) == <<AlreadyExistsCF, " \"", table, "\" to keyspace \"", ks, "\"">>
ErrKeyspaceExists(ks) == <<"Cannot add existing keyspace", " \"", ks, "\"">>
ErrIndexExists == <<"Index already exists">>
ErrNoKeyspace(ks) == <<"Keyspace ", ks, " does not exist">>
ErrNoTable(ks, table) == <<"unconfigured columnfamily ", table>>
ErrAbstract == <<"cannot create table from abstract model">>

\* The rows of system.schema_keyspaces, system.schema_columnfamilies and
\* system."IndexInfo" that a statement leaves, and the exception it raises.
DbResult(error, ks, tb, ix) ==
    [error |-> error, keyspaces |-> ks, tables |-> tb, indexes |-> ix]

HasKeyspace(ks, name) == \E r \in ks : r.keyspace_name = name

HasTable(tb, ks, table) ==
    \E r \in tb : r.keyspace_name = ks /\ r.columnfamily_name = table

\* execute(statement) against the catalog (ks, tb, ix).
DbExecute(stmt, ks, tb, ix) ==
    CASE stmt.kind = "CREATE KEYSPACE" ->
           IF HasKeyspace(ks, stmt.keyspace)
           THEN DbResult(ErrKeyspaceExists(stmt.keyspace), ks, tb, ix)
           ELSE DbResult(NoError,
                  ks \cup {[keyspace_name |-> stmt.keyspace,
                            strategy_options |-> stmt.body.replication,
                            durable_writes |-> stmt.body.durable_writes # "false"]},
                  tb, ix)
      [] stmt.kind = "DROP KEYSPACE" ->
           IF ~HasKeyspace(ks, stmt.keyspace)
           THEN DbResult(ErrNoKeyspace(stmt.keyspace), ks, tb, ix)
           ELSE DbResult(NoError,
                  {r \in ks : r.keyspace_name # stmt.keyspace},
                  {r \in tb : r.keyspace_name # stmt.keyspace},
                  {r \in ix : r.table_name # stmt.keyspace})
      [] stmt.kind = "CREATE TABLE" ->
           IF ~HasKeyspace(ks, stmt.keyspace)
           THEN DbResult(ErrNoKeyspace(stmt.keyspace), ks, tb, ix)
           ELSE IF HasTable(tb, stmt.keyspace, stmt.table)
           THEN DbResult(ErrTableExists(stmt.keyspace, stmt.table), ks, tb, ix)
           ELSE DbResult(NoError, ks,
                  tb \cup {[keyspace_name |-> stmt.keyspace,
                            columnfamily_name |-> stmt.table,
                            definition |-> stmt.body]},
                  ix)
      [] stmt.kind = "DROP TABLE" ->
           IF ~HasTable(tb, stmt.keyspace, stmt.table)
           THEN DbResult(ErrNoTable(stmt.keyspace, stmt.table), ks, tb, ix)
           ELSE DbResult(NoError, ks,
                  {r \in tb : ~(r.keyspace_name = stmt.keyspace
                                /\ r.columnfamily_name = stmt.table)},
                  {r \in ix : ~(r.table_name = stmt.keyspace
                                /\ r.index_name[1] = stmt.table)})
      [] stmt.kind = "CREATE INDEX" ->
           LET row == [table_name |-> stmt.keyspace,
                       index_name |-> <<stmt.table, ".">> \o stmt.index]
           IN IF ~HasTable(tb, stmt.keyspace, stmt.table)
              THEN DbResult(ErrNoTable(stmt.keyspace, stmt.table), ks, tb, ix)
              ELSE IF row \in ix
              THEN DbResult(ErrIndexExists, ks, tb, ix)
              ELSE DbResult(NoError, ks, tb, ix \cup {row})

\* ---------------------------------------------------------------- clients

Procs == {"p1", "p2"}

\* The models the clients synchronize: two declarations of the same table
\* and an abstract model.
IdColumn == Column("id", "uuid", TRUE, TRUE, FALSE, None)

Users ==
    [abstract |-> FALSE, keyspace |-> "ks1", table |-> "users",
     columns |-> <<IdColumn,
                   Column("age", "int", FALSE, FALSE, TRUE, None),
                   Column("email", "text", FALSE, FALSE, TRUE, None)>>,
     read_repair_chance |-> "0.1"]

UsersV2 ==
    [abstract |-> FALSE, keyspace |-> "ks1", table |-> "users",
     columns |-> <<IdColumn,
                   Column("ts", "timestamp", TRUE, FALSE, FALSE, "DESC"),
                   Column("email", "text", FALSE, FALSE, TRUE, None)>>,
     read_repair_chance |-> "0.1"]

AbstractUsers == [Users EXCEPT !.abstract = TRUE]

Models == {Users, UsersV2, AbstractUsers}

KsNames == {"ks1"}

\* A non-default create_keyspace call.
TopologyKsArgs ==
    KsArgs("NetworkTopologyStrategy", 3, FALSE, [dc1 |-> 3])

\* A call of one of the four functions of the module.
CallOf(fn, name, args, model, cmk) ==
    [fn |-> fn, name |-> name, args |-> args, model |-> model,
     create_missing_keyspace |-> cmk]

NoCall == CallOf("none", "", DefaultKsArgs, Users, FALSE)

Calls ==
    {CallOf("create_keyspace", n, a, Users, FALSE) :
        n \in KsNames, a \in {DefaultKsArgs, TopologyKsArgs}}
    \cup {CallOf("delete_keyspace", n, DefaultKsArgs, Users, FALSE) : n \in KsNames}
    \cup {CallOf("create_table", get_keyspace(m), DefaultKsArgs, m, c) :
            m \in Models, c \in BOOLEAN}
    \cup {CallOf("delete_table", get_keyspace(Users), DefaultKsArgs, Users, FALSE)}

VARIABLES
    keyspaces,      \* rows of system.schema_keyspaces
    tables,         \* rows of system.schema_columnfamilies
    indexes,        \* rows of system."IndexInfo"
    pc,             \* where each client is in its call
    op,             \* the call each client is running
    names_read,     \* the list a client read last: keyspaces, tables, idx_names
    idx_i,          \* position of the index loop (line 121)
    err,            \* the exception that left the call
    issued,         \* the statements the call has run, in order, each with
                    \* the exception it raised
    budget,         \* calls a client still makes
    prev,           \* a client's previous call, the catalog its present
                    \* call started on, and the call before the previous
    ddl_model,      \* statement builder: the model
    ddl_query,      \* statement builder: the statement built
    ks_args,        \* keyspace statement builder: the call as written
    ks_query,       \* keyspace statement builder: the statement built
    ks_error,       \* keyspace statement builder: the exception raised
    ks_pc           \* keyspace statement builder: where the call is

catalog == <<keyspaces, tables, indexes>>
locals == <<pc, op, names_read, idx_i, err, issued, budget, prev>>
ddl == <<ddl_model, ddl_query, ks_args, ks_query, ks_error, ks_pc>>
vars == <<keyspaces, tables, indexes, pc, op, names_read, idx_i, err,
          issued, budget, prev, ddl_model, ddl_query, ks_args, ks_query,
          ks_error, ks_pc>>

NoPrev ==
    [call |-> NoCall, status |-> "none", keyspaces |-> {}, tables |-> {},
     indexes |-> {}, issued |-> <<>>,
     before |-> [call |-> NoCall, status |-> "none"]]

\* ---- the catalogs a call can find

KeyspaceRows ==
    {DbExecute(CreateKeyspaceStmt(n, a), {}, {}, {}).keyspaces :
        n \in KsNames, a \in {DefaultKsArgs, TopologyKsArgs}}

TableRows(ks) ==
    {DbExecute(CreateTableStmt(m), ks, {}, {}).tables : m \in {Users, UsersV2}}

IndexRows(ks, tb) ==
    UNION {DbExecute(CreateIndexStmt(Users, Users.columns[k]), ks, tb, {}).indexes :
             k \in {2, 3}}

Catalogs ==
    {<<{}, {}, {}>>}
    \cup {<<ks, {}, {}>> : ks \in KeyspaceRows}
    \cup UNION {UNION {{<<ks, tb, ix>> : ix \in SUBSET IndexRows(ks, tb)} :
                         tb \in TableRows(ks)} : ks \in KeyspaceRows}

InitClients(b) ==
    /\ pc = [p \in Procs |-> "idle"]
    /\ op = [p \in Procs |-> NoCall]
    /\ names_read = [p \in Procs |-> {}]
    /\ idx_i = [p \in Procs |-> 1]
    /\ err = [p \in Procs |-> NoError]
    /\ issued = [p \in Procs |-> <<>>]
    /\ budget = b
    /\ prev = [p \in Procs |-> NoPrev]

InitCatalog == \E c \in Catalogs : keyspaces = c[1] /\ tables = c[2] /\ indexes = c[3]

\* One client making MaxCalls calls in sequence.
Init ==
    /\ InitCatalog
    /\ InitClients([p \in Procs |-> IF p = "p1" THEN MaxCalls ELSE 0])
    /\ ddl_model = Users /\ ddl_query = <<>>
    /\ ks_args = DefaultKsCall /\ ks_query = <<>> /\ ks_error = NoError
    /\ ks_pc = "idle"

\* Two clients making one call each, interleaved at every database round trip.
InitRace ==
    /\ InitCatalog
    /\ InitClients([p \in Procs |-> 1])
    /\ ddl_model = Users /\ ddl_query = <<>>
    /\ ks_args = DefaultKsCall /\ ks_query = <<>> /\ ks_error = NoError
    /\ ks_pc = "idle"

\* ---- steps shared by the four functions

\* An entry of a call's log.
Ran(stmt, error, rows) == [stmt |-> stmt, error |-> error, rows |-> rows]

\* What the database answers to stmt on the present catalog.
Outcome(stmt) == DbExecute(stmt, keyspaces, tables, indexes)

\* execute(stmt) by client p: the catalog changes, the statement is logged,
\* and the exception, unless an except clause caught it, leaves the call.
Execute(p, stmt, caught, next) ==
    LET r == Outcome(stmt)
        raised == r.error # NoError /\ ~caught
    IN /\ keyspaces' = r.keyspaces
       /\ tables' = r.tables
       /\ indexes' = r.indexes
       /\ issued' = [issued EXCEPT ![p] = Append(@, Ran(stmt, r.error, {}))]
       /\ err' = [err EXCEPT ![p] = IF raised THEN r.error ELSE @]
       /\ pc' = [pc EXCEPT ![p] = IF raised THEN "failed" ELSE next]

Entry(fn) ==
    CASE fn = "create_keyspace" -> "ck_read"
      [] fn = "delete_keyspace" -> "dk_read"
      [] fn = "create_table" -> "ct_entry"
      [] fn = "delete_table" -> "dt_read"

\* A client calls one of the functions.
Call(p, c) ==
    /\ pc[p] \in {"idle", "done", "failed"}
    /\ budget[p] > 0
    /\ budget' = [budget EXCEPT ![p] = @ - 1]
    /\ prev' = [prev EXCEPT ![p] =
                  [call |-> op[p],
                   status |-> IF pc[p] = "idle" THEN "none" ELSE pc[p],
                   keyspaces |-> keyspaces, tables |-> tables,
                   indexes |-> indexes, issued |-> issued[p],
                   before |-> [call |-> @.call, status |-> @.status]]]
    /\ op' = [op EXCEPT ![p] = c]
    /\ pc' = [pc EXCEPT ![p] = Entry(c.fn)]
    /\ names_read' = [names_read EXCEPT ![p] = {}]
    /\ idx_i' = [idx_i EXCEPT ![p] = 1]
    /\ err' = [err EXCEPT ![p] = NoError]
    /\ issued' = [issued EXCEPT ![p] = <<>>]
    /\ UNCHANGED <<catalog, ddl>>

\* The call a client's create_keyspace steps run: its own, or the
\* create_keyspace(ks_name) of create_table (line 59).
KsName(p) ==
    IF op[p].fn = "create_table" THEN get_keyspace(op[p].model) ELSE op[p].name

KsArgsOf(p) ==
    IF op[p].fn = "create_table" THEN DefaultKsArgs ELSE op[p].args

\* Where create_keyspace returns to.
AfterKeyspace(p) == IF op[p].fn = "create_table" THEN "ct_tables" ELSE "done"

\* con.execute(SELECT ...) by client p: a catalog read, which is logged.
Read(p, select, names, next) ==
    /\ names_read' = [names_read EXCEPT ![p] = names]
    /\ issued' = [issued EXCEPT ![p] = Append(@, Ran(select, NoError, names))]
    /\ pc' = [pc EXCEPT ![p] = next]
    /\ UNCHANGED <<catalog, op, idx_i, err, budget, prev, ddl>>

\* ---- create_keyspace

\* The mutant creates without looking.
keyspace_missing_m_always(name, names) == TRUE

\* name not in [r.keyspace_name for r in keyspaces] (line 21)
keyspace_missing(name, names) == name \notin names

\* The mutant keeps the keyspace names the client's previous call read and
\* decides on them.
CK_Read_m_cached(p) ==
    /\ pc[p] = "ck_read"
    /\ LET fresh  == {r.keyspace_name : r \in keyspaces}
           reads  == SelectSeq(prev[p].issued,
                               LAMBDA e : e.stmt.kind = "SELECT keyspace_name")
           names  == IF reads = <<>> THEN fresh ELSE reads[1].rows
       IN Read(p, SelectKeyspaces, names,
               IF keyspace_missing(KsName(p), names) THEN "ck_exec"
               ELSE AfterKeyspace(p))

\* Lines 19-21: read the keyspace names and decide.
CK_Read(p) ==
    /\ pc[p] = "ck_read"
    /\ LET names == {r.keyspace_name : r \in keyspaces}
       IN Read(p, SelectKeyspaces, names,
               IF keyspace_missing(KsName(p), names) THEN "ck_exec"
               ELSE AfterKeyspace(p))

\* Lines 23-37: build and execute CREATE KEYSPACE.
CK_Exec(p) ==
    /\ pc[p] = "ck_exec"
    /\ Execute(p, CreateKeyspaceStmt(KsName(p), KsArgsOf(p)), FALSE,
               AfterKeyspace(p))
    /\ UNCHANGED <<op, names_read, idx_i, budget, prev, ddl>>

\* ---- delete_keyspace

\* The mutant drops without looking.
keyspace_present_m_always(name, names) == TRUE

\* name in [r.keyspace_name for r in keyspaces] (line 43)
keyspace_present(name, names) == name \in names

\* Lines 41-43
DK_Read(p) ==
    /\ pc[p] = "dk_read"
    /\ LET names == {r.keyspace_name : r \in keyspaces}
       IN Read(p, SelectKeyspaces, names,
               IF keyspace_present(op[p].name, names) THEN "dk_exec" ELSE "done")

\* Line 44
DK_Exec(p) ==
    /\ pc[p] = "dk_exec"
    /\ Execute(p, DropKeyspaceStmt(op[p].name), FALSE, "done")
    /\ UNCHANGED <<op, names_read, idx_i, budget, prev, ddl>>

\* ---- create_table

\* The mutant skips the abstract check.
is_abstract_m_never(model) == FALSE

\* model.__abstract__ (line 49)
is_abstract(model) == model.abstract

\* The mutant runs the keyspace step whatever the flag says.
CT_Entry_m_ignores_flag(p) ==
    /\ pc[p] = "ct_entry"
    /\ IF is_abstract(op[p].model)
       THEN /\ pc' = [pc EXCEPT ![p] = "failed"]
            /\ err' = [err EXCEPT ![p] = ErrAbstract]
       ELSE /\ pc' = [pc EXCEPT ![p] = "ck_read"]
            /\ err' = err
    /\ UNCHANGED <<catalog, op, names_read, idx_i, issued, budget, prev, ddl>>

\* Lines 49-59: the abstract check, then the keyspace step if asked for.
CT_Entry(p) ==
    /\ pc[p] = "ct_entry"
    /\ IF is_abstract(op[p].model)
       THEN /\ pc' = [pc EXCEPT ![p] = "failed"]
            /\ err' = [err EXCEPT ![p] = ErrAbstract]
       ELSE /\ pc' = [pc EXCEPT ![p] =
                        IF op[p].create_missing_keyspace THEN "ck_read"
                        ELSE "ct_tables"]
            /\ err' = err
    /\ UNCHANGED <<catalog, op, names_read, idx_i, issued, budget, prev, ddl>>

\* The mutant creates, and skips the drop, without looking.
table_missing_m_always(name, names) == TRUE

\* raw_cf_name not in tables (lines 71 and 146)
table_missing(name, names) == name \notin names

\* The mutant returns when the table is there, without the index pass.
CT_Tables_m_skips_indexes(p) ==
    /\ pc[p] = "ct_tables"
    /\ LET names == {r.columnfamily_name :
                       r \in {t \in tables :
                                t.keyspace_name = get_keyspace(op[p].model)}}
       IN Read(p, SelectTables(get_keyspace(op[p].model)), names,
               IF table_missing(raw_cf_name(op[p].model), names) THEN "ct_create"
               ELSE "done")

\* Lines 61-71: read the keyspace's column family names and decide.
CT_Tables(p) ==
    /\ pc[p] = "ct_tables"
    /\ LET names == {r.columnfamily_name :
                       r \in {t \in tables :
                                t.keyspace_name = get_keyspace(op[p].model)}}
       IN Read(p, SelectTables(get_keyspace(op[p].model)), names,
               IF table_missing(raw_cf_name(op[p].model), names) THEN "ct_create"
               ELSE "ct_idx_read")

\* The mutants: no except clause, and an except clause that ignores all.
ignored_m_never(msg) == FALSE

ignored_m_always(msg) == TRUE

\* The except clause of lines 103-107: the exception is ignored when
\* "Cannot add already existing column family" is in its message.
ignored(msg) == Contains(msg, AlreadyExistsCF)

\* Lines 72-107: build and execute CREATE TABLE.
CT_Create(p) ==
    /\ pc[p] = "ct_create"
    /\ Execute(p, CreateTableStmt(op[p].model),
               ignored(Outcome(CreateTableStmt(op[p].model)).error),
               "ct_idx_read")
    /\ UNCHANGED <<op, names_read, idx_i, budget, prev, ddl>>

\* Lines 110-120: read the keyspace's index names; the loop starts.
CT_IdxRead(p) ==
    /\ pc[p] = "ct_idx_read"
    /\ LET names == {r.index_name :
                       r \in {i \in indexes :
                                i.table_name = get_keyspace(op[p].model)}}
       IN Read(p, SelectIndexes(get_keyspace(op[p].model)), names,
               IF indexed_columns(op[p].model) = <<>> THEN "done" ELSE "ct_idx")

\* The mutant never finds the index.
index_present_m_never(model, column, names) == FALSE

\* '{}.{}'.format(raw_cf_name, idx_name) in idx_names (line 123)
index_present(model, column, names) ==
    qualified_idx_name(model, column) \in names

\* The mutant goes on to the next column when a CREATE INDEX fails.
CT_Idx_m_continues(p) ==
    /\ pc[p] = "ct_idx"
    /\ LET cols   == indexed_columns(op[p].model)
           column == cols[idx_i[p]]
           next   == IF idx_i[p] = Len(cols) THEN "done" ELSE "ct_idx"
       IN IF index_present(op[p].model, column, names_read[p])
          THEN /\ pc' = [pc EXCEPT ![p] = next]
               /\ UNCHANGED <<catalog, err, issued>>
          ELSE Execute(p, CreateIndexStmt(op[p].model, column), TRUE, next)
    /\ idx_i' = [idx_i EXCEPT ![p] = @ + 1]
    /\ UNCHANGED <<op, names_read, budget, prev, ddl>>

\* Lines 121-130: one iteration of the loop over the indexed columns.
CT_Idx(p) ==
    /\ pc[p] = "ct_idx"
    /\ LET cols   == indexed_columns(op[p].model)
           column == cols[idx_i[p]]
           next   == IF idx_i[p] = Len(cols) THEN "done" ELSE "ct_idx"
       IN IF index_present(op[p].model, column, names_read[p])
          THEN /\ pc' = [pc EXCEPT ![p] = next]
               /\ UNCHANGED <<catalog, err, issued>>
          ELSE Execute(p, CreateIndexStmt(op[p].model, column), FALSE, next)
    /\ idx_i' = [idx_i EXCEPT ![p] = @ + 1]
    /\ UNCHANGED <<op, names_read, budget, prev, ddl>>

\* ---- delete_table

\* raw_cf_name not in tables (line 146)
DT_Read(p) ==
    /\ pc[p] = "dt_read"
    /\ LET names == {r.columnfamily_name :
                       r \in {t \in tables :
                                t.keyspace_name = get_keyspace(op[p].model)}}
       IN Read(p, SelectTables(get_keyspace(op[p].model)), names,
               IF table_missing(raw_cf_name(op[p].model), names) THEN "done"
               ELSE "dt_exec")

\* Lines 149-150
DT_Exec(p) ==
    /\ pc[p] = "dt_exec"
    /\ Execute(p, DropTableStmt(op[p].model), FALSE, "done")
    /\ UNCHANGED <<op, names_read, idx_i, budget, prev, ddl>>

\* ---- specifications

Next ==
    \E p \in Procs :
        \/ \E c \in Calls : Call(p, c)
        \/ CK_Read(p)
        \/ CK_Exec(p)
        \/ DK_Read(p)
        \/ DK_Exec(p)
        \/ CT_Entry(p)
        \/ CT_Tables(p)
        \/ CT_Create(p)
        \/ CT_IdxRead(p)
        \/ CT_Idx(p)
        \/ DT_Read(p)
        \/ DT_Exec(p)

Spec == Init /\ [][Next]_vars

SpecRace == InitRace /\ [][Next]_vars

\* ---- the statement builder on every small model

\* The flags a column descriptor can carry: a partition key, a clustering
\* key with its order unset or declared, a plain column with or without an
\* index.
ColumnKinds ==
    {[pk |-> TRUE, part |-> TRUE, idx |-> FALSE, order |-> None]}
    \cup {[pk |-> TRUE, part |-> FALSE, idx |-> FALSE, order |-> o] :
            o \in {None, "ASC", "DESC"}}
    \cup {[pk |-> FALSE, part |-> FALSE, idx |-> i, order |-> None] :
            i \in BOOLEAN}

ColumnName(k) == <<"c1", "c2", "c3", "c4", "c5", "c6">>[k]

ColumnLists(n) ==
    {[k \in 1..n |-> Column(ColumnName(k), "text", kinds[k].pk, kinds[k].part,
                            kinds[k].idx, kinds[k].order)] :
        kinds \in [1..n -> ColumnKinds]}

\* Every model of up to MaxCols columns with at least one partition key.
GenModels ==
    {[abstract |-> FALSE, keyspace |-> "ks1", table |-> "t",
      columns |-> cols, read_repair_chance |-> "0.1"] :
        cols \in {l \in UNION {ColumnLists(n) : n \in 1..MaxCols} :
                    \E k \in 1..Len(l) : l[k].partition_key}}

InitDDL ==
    /\ keyspaces = {} /\ tables = {} /\ indexes = {}
    /\ InitClients([p \in Procs |-> 0])
    /\ ddl_model \in GenModels
    /\ ddl_query = <<>>
    /\ ks_args = DefaultKsCall /\ ks_query = <<>> /\ ks_error = NoError
    /\ ks_pc = "idle"

\* Lines 72-99 applied to the model.
BuildQuery ==
    /\ ddl_query = <<>>
    /\ ddl_query' = create_table_query(ddl_model)
    /\ UNCHANGED <<catalog, locals, ddl_model, ks_args, ks_query, ks_error,
                   ks_pc>>

NextDDL == BuildQuery

SpecDDL == InitDDL /\ [][NextDDL]_vars

\* ---- the keyspace statement builder on every small argument list

\* Data centers named in the extra replication options.
MaxDcs == 1

DcName(k) == <<"dc1", "dc2", "dc3", "dc4">>[k]

StrategyClasses == {"SimpleStrategy", "NetworkTopologyStrategy"}

\* The keywords a caller may write after the positional arguments: 'class',
\* data center names and, by mistake, the name of a parameter.
KeywordKeys == {"class", "replication_factor"} \cup {DcName(k) : k \in 1..MaxDcs}

KeywordMaps ==
    {[k \in keys |-> IF k = "class" THEN c
                     ELSE IF k = "replication_factor" THEN f
                     ELSE 3] :
        keys \in SUBSET KeywordKeys, c \in StrategyClasses, f \in {1, 2}}

GenKsCalls ==
    {KsCall(c, f, d, e) :
        c \in StrategyClasses, f \in {1, 3}, d \in BOOLEAN, e \in KeywordMaps}

\* The keywords of the call that name a parameter already given by position.
clashing(call) == DOMAIN call.keywords \cap ParamNames

\* TypeError of the call: a parameter has a positional and a keyword value.
ErrMultipleValues(key) ==
    <<"create_keyspace() got multiple values for keyword argument '", key, "'">>

\* The binding of line 9: the keywords that name no parameter are
\* **replication_values.
bind(call) ==
    KsArgs(call.strategy_class, call.replication_factor, call.durable_writes,
           call.keywords)

\* The orders a dict of these keys can iterate in.
KeyOrders(keys) ==
    {o \in [1..Cardinality(keys) -> keys] :
        \A i, j \in 1..Cardinality(keys) : o[i] = o[j] => i = j}

\* The keyspace the calls of the statement builder name.
KsBuilt == "ks1"

InitKs ==
    /\ InitCatalog
    /\ InitClients([p \in Procs |-> 0])
    /\ ddl_model = Users /\ ddl_query = <<>>
    /\ ks_args \in GenKsCalls
    /\ ks_query = <<>>
    /\ ks_error = NoError
    /\ ks_pc = "call"

\* Line 9: the call binds its arguments, or raises TypeError when a keyword
\* names a parameter given by position.
KS_Call ==
    /\ ks_pc = "call"
    /\ IF clashing(ks_args) # {}
       THEN /\ \E key \in clashing(ks_args) : ks_error' = ErrMultipleValues(key)
            /\ ks_pc' = "failed"
       ELSE /\ ks_error' = ks_error
            /\ ks_pc' = "read"
    /\ UNCHANGED <<catalog, locals, ddl_model, ddl_query, ks_args, ks_query>>

\* Lines 19-21: read the keyspace names and decide.
KS_Read ==
    /\ ks_pc = "read"
    /\ LET names == {r.keyspace_name : r \in keyspaces}
       IN ks_pc' = IF keyspace_missing(KsBuilt, names) THEN "build" ELSE "done"
    /\ UNCHANGED <<catalog, locals, ddl_model, ddl_query, ks_args, ks_query,
                   ks_error>>

\* Lines 23-37: build the statement and execute it.
BuildKeyspaceQuery ==
    /\ ks_pc = "build"
    /\ \E order \in KeyOrders(DOMAIN replication_map(bind(ks_args))) :
         ks_query' = create_keyspace_query(KsBuilt, bind(ks_args), order)
    /\ LET r == Outcome(CreateKeyspaceStmt(KsBuilt, bind(ks_args)))
       IN /\ keyspaces' = r.keyspaces
          /\ tables' = r.tables
          /\ indexes' = r.indexes
          /\ ks_error' = r.error
          /\ ks_pc' = IF r.error # NoError THEN "failed" ELSE "done"
    /\ UNCHANGED <<locals, ddl_model, ddl_query, ks_args>>

NextKs == KS_Call \/ KS_Read \/ BuildKeyspaceQuery

SpecKs == InitKs /\ [][NextKs]_vars

\* ------------------------------------------------------------------ claims

\* The log has a statement of this kind.
Issued(log, kind) == \E k \in 1..Len(log) : log[k].stmt.kind = kind

\* The log has a statement of this kind that raised an exception with msg in it.
Rejected(log, kind, msg) ==
    \E k \in 1..Len(log) :
        log[k].stmt.kind = kind /\ Contains(log[k].error, msg)

KeyspaceCount(name) ==
    Cardinality({r \in keyspaces : r.keyspace_name = name})

TableCount(model) ==
    Cardinality({r \in tables : /\ r.keyspace_name = get_keyspace(model)
                                /\ r.columnfamily_name = raw_cf_name(model)})

\* No other client has made a call.
Alone(p) == \A q \in Procs \ {p} : pc[q] = "idle"

\* Client p runs the call it ran just before, which returned normally.
Again(p, fn) ==
    /\ op[p].fn = fn
    /\ prev[p].call = op[p]
    /\ prev[p].status = "done"
    /\ Alone(p)

\* C1: the second of two create_table calls in sequence with the same model
\* raises no error, issues no CREATE TABLE and no CREATE INDEX, and returns
\* with the index rows the first call left and exactly one row of the table.
C1_CreateTableTwice ==
    \A p \in Procs :
        Again(p, "create_table") =>
            /\ pc[p] # "failed"
            /\ err[p] = NoError
            /\ ~Issued(issued[p], "CREATE TABLE")
            /\ ~Issued(issued[p], "CREATE INDEX")
            /\ pc[p] = "done" =>
                 /\ indexes = prev[p].indexes
                 /\ TableCount(op[p].model) = 1

\* The first call created the table and indexes, the second has returned.
C1_Witness ==
    \E p \in Procs :
        /\ Again(p, "create_table")
        /\ pc[p] = "done"
        /\ Issued(prev[p].issued, "CREATE TABLE")
        /\ Issued(prev[p].issued, "CREATE INDEX")

\* C2: the second of two create_keyspace calls in sequence with identical
\* arguments raises no error, issues no CREATE KEYSPACE, and returns with
\* exactly one keyspace row of that name.
C2_CreateKeyspaceTwice ==
    \A p \in Procs :
        Again(p, "create_keyspace") =>
            /\ pc[p] # "failed"
            /\ err[p] = NoError
            /\ ~Issued(issued[p], "CREATE KEYSPACE")
            /\ pc[p] = "done" =>
                 /\ KeyspaceCount(op[p].name) = 1
                 /\ keyspaces = prev[p].keyspaces

\* The first call created the keyspace, the second has returned.
C2_Witness ==
    \E p \in Procs :
        /\ Again(p, "create_keyspace")
        /\ pc[p] = "done"
        /\ Issued(prev[p].issued, "CREATE KEYSPACE")

\* The call's last statement is of this kind.
LastIssued(log, kind) == log # <<>> /\ log[Len(log)].stmt.kind = kind

\* C3: a caller of create_table whose CREATE TABLE the database rejects with
\* "Cannot add already existing column family" does not fail on it: the
\* exception does not leave the call, the caller goes on into the index pass
\* (it is reading the index names, in the index loop, returned, or failed on
\* a CREATE INDEX), and the catalog has exactly one row of the table.
C3_TableRaceSwallowed ==
    \A p \in Procs :
        Rejected(issued[p], "CREATE TABLE", AlreadyExistsCF) =>
            /\ ~Contains(err[p], AlreadyExistsCF)
            /\ \/ pc[p] \in {"ct_idx_read", "ct_idx", "done"}
               \/ pc[p] = "failed" /\ LastIssued(issued[p], "CREATE INDEX")
            /\ pc[p] \in {"ct_idx_read", "ct_idx", "done"} => err[p] = NoError
            /\ TableCount(op[p].model) = 1

\* Both callers ran create_table on the same model, both executed CREATE
\* TABLE, one was rejected, and both have returned.
C3_Witness ==
    \E p \in Procs, q \in Procs :
        /\ p # q
        /\ op[p].fn = "create_table" /\ op[q] = op[p]
        /\ Rejected(issued[p], "CREATE TABLE", AlreadyExistsCF)
        /\ Issued(issued[q], "CREATE TABLE")
        /\ ~Rejected(issued[q], "CREATE TABLE", AlreadyExistsCF)
        /\ LastIssued(issued[p], "SELECT index_name")
        /\ pc[p] = "done" /\ pc[q] = "done"

\* Client q creates a keyspace, by create_keyspace or by the keyspace step of
\* create_table.
CreatesKeyspace(q) ==
    \/ op[q].fn = "create_keyspace"
    \/ /\ op[q].fn = "create_table"
       /\ op[q].create_missing_keyspace
       /\ ~op[q].model.abstract

\* C4 (as claimed): when two callers create the same keyspace, a caller
\* whose CREATE KEYSPACE the database rejects as already existing does not
\* fail, and the catalog has exactly one keyspace row of that name.
C4_KeyspaceRaceTolerated ==
    \A p \in Procs :
        (/\ \A q \in Procs : CreatesKeyspace(q) /\ KsName(q) = KsName(p)
         /\ Rejected(issued[p], "CREATE KEYSPACE", "Cannot add existing keyspace")) =>
            /\ pc[p] # "failed"
            /\ err[p] = NoError
            /\ KeyspaceCount(KsName(p)) = 1

\* C5 (as claimed): when two callers run create_table on the same model, a
\* caller whose CREATE INDEX the database rejects as already existing does
\* not fail, and the catalog has the index of every indexed column whose
\* CREATE INDEX was issued.
C5_IndexRaceTolerated ==
    \A p \in Procs :
        (/\ \A q \in Procs : op[q].fn = "create_table" /\ op[q].model = op[p].model
         /\ Rejected(issued[p], "CREATE INDEX", "Index already exists")) =>
            /\ pc[p] # "failed"
            /\ err[p] = NoError
            /\ \A k \in 1..Len(issued[p]) :
                 issued[p][k].stmt.kind = "CREATE INDEX" =>
                    [table_name |-> issued[p][k].stmt.keyspace,
                     index_name |-> <<issued[p][k].stmt.table, ".">>
                                    \o issued[p][k].stmt.index] \in indexes

\* C6: create_table on an abstract model goes from its entry straight to the
\* failure with the abstract-model exception: it has run no catalog read and
\* no DDL statement, and the step leaves the catalog as it was.
C6_AbstractState ==
    \A p \in Procs :
        (op[p].fn = "create_table" /\ op[p].model.abstract) =>
            /\ pc[p] \in {"ct_entry", "failed"}
            /\ issued[p] = <<>>
            /\ pc[p] = "failed" => err[p] = ErrAbstract

C6_AbstractStep ==
    \A p \in Procs :
        (op[p].fn = "create_table" /\ op[p].model.abstract
         /\ pc[p] = "ct_entry" /\ pc'[p] # "ct_entry") =>
            /\ pc'[p] = "failed"
            /\ keyspaces' = keyspaces /\ tables' = tables /\ indexes' = indexes

C6_AbstractFails == []C6_AbstractState /\ [][C6_AbstractStep]_vars

\* An abstract-model call has failed, on a catalog that lacks the keyspace
\* it was told to create.
C6_Witness ==
    \E p \in Procs :
        /\ op[p].fn = "create_table" /\ op[p].model.abstract
        /\ op[p].create_missing_keyspace
        /\ pc[p] = "failed" /\ err[p] = ErrAbstract
        /\ keyspaces = {}

\* C7: delete_keyspace of a name that has no keyspace row, and delete_table
\* of a model whose table has no row, return after the read: the step that
\* reads goes to the return with no DROP issued, no exception, and the
\* catalog as it was.
C7_DeleteStep ==
    \A p \in Procs :
        /\ (pc[p] = "dk_read" /\ pc'[p] # "dk_read"
            /\ ~HasKeyspace(keyspaces, op[p].name)) =>
               /\ pc'[p] = "done" /\ err'[p] = NoError
               /\ ~Issued(issued'[p], "DROP KEYSPACE")
               /\ keyspaces' = keyspaces /\ tables' = tables /\ indexes' = indexes
        /\ (pc[p] = "dt_read" /\ pc'[p] # "dt_read"
            /\ ~HasTable(tables, get_keyspace(op[p].model), raw_cf_name(op[p].model))) =>
               /\ pc'[p] = "done" /\ err'[p] = NoError
               /\ ~Issued(issued'[p], "DROP TABLE")
               /\ keyspaces' = keyspaces /\ tables' = tables /\ indexes' = indexes

C7_DeleteAbsentNoOp == [][C7_DeleteStep]_vars

\* A delete_keyspace of an absent keyspace returned, and the delete_table
\* after it has returned too.
C7_Witness ==
    \E p \in Procs :
        /\ prev[p].call.fn = "delete_keyspace" /\ prev[p].status = "done"
        /\ ~Issued(prev[p].issued, "DROP KEYSPACE")
        /\ op[p].fn = "delete_table" /\ pc[p] = "done"
        /\ ~Issued(issued[p], "DROP TABLE")
        /\ keyspaces = {}

\* C8: when CREATE TABLE raises an exception without the recognized message,
\* the exception leaves the call and the call stops there: CREATE TABLE is
\* the last statement it ran (no index-name read, no CREATE INDEX).
C8_OtherFailurePropagates ==
    \A p \in Procs :
        \A k \in 1..Len(issued[p]) :
            (/\ issued[p][k].stmt.kind = "CREATE TABLE"
             /\ issued[p][k].error # NoError
             /\ ~Contains(issued[p][k].error, AlreadyExistsCF)) =>
                /\ pc[p] = "failed"
                /\ err[p] = issued[p][k].error
                /\ k = Len(issued[p])

\* A create_table without the keyspace step failed on a missing keyspace.
C8_Witness ==
    \E p \in Procs :
        /\ op[p].fn = "create_table" /\ ~op[p].create_missing_keyspace
        /\ pc[p] = "failed"
        /\ LastIssued(issued[p], "CREATE TABLE")
        /\ err[p] = ErrNoKeyspace(get_keyspace(op[p].model))

\* ---- the statement read back

\* Position of the first token t of q after position k (0 if none).
RECURSIVE Find(_, _, _)
Find(q, t, k) ==
    IF k >= Len(q) THEN 0
    ELSE IF q[k + 1] = t THEN k + 1
    ELSE Find(q, t, k + 1)

\* The names in q between positions a and b: the tokens that are neither
\* quotes nor separators.
NamesBetween(q, a, b) ==
    SelectSeq(SubSeq(q, a + 1, b - 1), LAMBDA t : t \notin {"\"", ", "})

\* The PRIMARY KEY clause of a statement: the names inside the inner
\* parentheses, and those after them up to the closing parenthesis.
PkStart(q) == Find(q, "PRIMARY KEY ((", 0)
PkInnerEnd(q) == Find(q, ")", PkStart(q))
PkOuterEnd(q) == Find(q, ")", PkInnerEnd(q))
PartitionNames(q) == NamesBetween(q, PkStart(q), PkInnerEnd(q))
ClusteringNames(q) == NamesBetween(q, PkInnerEnd(q), PkOuterEnd(q))

\* The names of the columns of a list, in order.
NamesOf(cols) == [k \in 1..Len(cols) |-> cols[k].db_field_name]

\* C9: the PRIMARY KEY clause of the statement built for a model lists, in the
\* inner parentheses, exactly the partition-key columns in declaration order,
\* then exactly the clustering-key columns in declaration order, and so no
\* column that is not a primary key.
C9_PrimaryKeyOrder ==
    ddl_query # <<>> =>
        /\ PkStart(ddl_query) > 0
        /\ PkInnerEnd(ddl_query) > 0
        /\ PkOuterEnd(ddl_query) > 0
        /\ PartitionNames(ddl_query) =
             NamesOf(SelectSeq(ddl_model.columns, LAMBDA c : c.partition_key))
        /\ ClusteringNames(ddl_query) =
             NamesOf(SelectSeq(ddl_model.columns,
                               LAMBDA c : c.primary_key /\ ~c.partition_key))
        /\ \A k \in 1..Len(ddl_model.columns) :
             ~ddl_model.columns[k].primary_key =>
                /\ ddl_model.columns[k].db_field_name
                     \notin Range(PartitionNames(ddl_query))
                /\ ddl_model.columns[k].db_field_name
                     \notin Range(ClusteringNames(ddl_query))

\* The statement is built for a model that declares a clustering key, then a
\* plain column, then its partition key.
C9_Witness ==
    /\ ddl_query # <<>>
    /\ Len(ddl_model.columns) = 3
    /\ ddl_model.columns[1].primary_key /\ ~ddl_model.columns[1].partition_key
    /\ ~ddl_model.columns[2].primary_key
    /\ ddl_model.columns[3].partition_key
    /\ PartitionNames(ddl_query) = <<"c3">>
    /\ ClusteringNames(ddl_query) = <<"c1">>

\* The WITH clause of a statement: what follows the WITH token.
WithStart(q) == Find(q, "WITH ", 0)
WithClause(q) == SubSeq(q, WithStart(q) + 1, Len(q))
HasOrderPart(q) == Contains(WithClause(q), "clustering order by (")
OrderStart(q) == Find(q, "clustering order by (", WithStart(q))

HasReadRepair(q) ==
    /\ WithStart(q) > 0
    /\ WithClause(q)[1] = "read_repair_chance = "
    /\ WithClause(q)[2] = ddl_model.read_repair_chance

\* C10 (as claimed): the statement has a WITH clause with read_repair_chance,
\* and the clustering-order part if and only if a clustering key declares an
\* order.
C10_OrderOnlyWhenDeclared ==
    ddl_query # <<>> =>
        /\ HasReadRepair(ddl_query)
        /\ HasOrderPart(ddl_query) <=>
             \E k \in 1..Len(clustering_keys(ddl_model)) :
                 clustering_keys(ddl_model)[k].clustering_order # None

\* C10 (amended): the statement has a WITH clause with read_repair_chance, and
\* the clustering-order part if and only if the model has a clustering key;
\* the part lists every clustering key in declaration order, each with its
\* declared order, or ASC when it declares none.
C10_OrderWhenClusteringKeys ==
    ddl_query # <<>> =>
        /\ HasReadRepair(ddl_query)
        /\ HasOrderPart(ddl_query) <=> clustering_keys(ddl_model) # <<>>
        /\ HasOrderPart(ddl_query) =>
             LET keys == clustering_keys(ddl_model)
                 part == SubSeq(ddl_query, OrderStart(ddl_query) + 1,
                                Len(ddl_query) - 1)
             IN /\ ddl_query[Len(ddl_query)] = ")"
                /\ Len(part) = 4 * Len(keys) - 1
                /\ \A k \in 1..Len(keys) :
                     /\ part[4 * k - 3] = keys[k].db_field_name
                     /\ part[4 * k - 2] = " "
                     /\ part[4 * k - 1] =
                          (IF keys[k].clustering_order = None THEN "ASC"
                           ELSE keys[k].clustering_order)
                     /\ k < Len(keys) => part[4 * k] = ", "

\* The statement is built for a model whose clustering keys all leave the
\* order unset, and it has the clustering-order part.
C10_Witness ==
    /\ ddl_query # <<>>
    /\ clustering_keys(ddl_model) # <<>>
    /\ \A k \in 1..Len(clustering_keys(ddl_model)) :
         clustering_keys(ddl_model)[k].clustering_order = None
    /\ HasOrderPart(ddl_query)

\* ---- reading a CREATE KEYSPACE statement back

\* The token after the first token t of q, "" when q has no t.
After(q, t) == IF Find(q, t, 0) = 0 THEN "" ELSE q[Find(q, t, 0) + 1]

\* The positions of q where an item of the replication map starts: a quoted
\* key followed by the colon.
ItemStarts(q) ==
    {i \in 1..Len(q) : i + 4 <= Len(q) /\ q[i] = "'" /\ q[i + 2] = "'"
                                        /\ q[i + 3] = ": "}

\* The text of the value of the item at i: the str between its quotes, or
\* the digits.
ItemValue(q, i) == IF q[i + 4] = "'" THEN q[i + 5] ELSE q[i + 4]

\* The text a value takes in the statement.
ValueText(k, v) == IF k = "class" THEN v ELSE Digits(v)

\* C11: the CREATE KEYSPACE statement built from any arguments has the
\* DURABLE_WRITES clause exactly when the strategy_class argument is not
\* 'SimpleStrategy'; when it has the clause, the clause ends the statement
\* and its value is 'true' for durable_writes=True and 'false' for False.
C11_DurableWritesClause ==
    ks_query # <<>> =>
        /\ Contains(ks_query, " AND DURABLE_WRITES = ")
              <=> ks_args.strategy_class # "SimpleStrategy"
        /\ Contains(ks_query, " AND DURABLE_WRITES = ") =>
              /\ Find(ks_query, " AND DURABLE_WRITES = ", 0) = Len(ks_query) - 1
              /\ After(ks_query, " AND DURABLE_WRITES = ")
                   = (IF ks_args.durable_writes THEN "true" ELSE "false")
        /\ ~Contains(ks_query, " AND DURABLE_WRITES = ") =>
              /\ "true" \notin Range(ks_query)
              /\ "false" \notin Range(ks_query)

C11_Witness ==
    /\ ks_query # <<>>
    /\ ks_args.strategy_class = "NetworkTopologyStrategy"
    /\ ~ks_args.durable_writes
    /\ After(ks_query, " AND DURABLE_WRITES = ") = "false"

\* C12 (as claimed): every create_keyspace call on a catalog without the
\* keyspace ends without an exception, having built a statement whose
\* replication map has exactly the keys 'class', 'replication_factor' and
\* those of the extra options, each once; a key the extras name, 'class' or
\* 'replication_factor' included, has the extra's value, and 'class' and
\* 'replication_factor' otherwise have the strategy_class and
\* replication_factor arguments.
C12_ReplicationMapMerged ==
    (/\ ks_pc \in {"done", "failed"}
     /\ (ks_query # <<>> \/ ~HasKeyspace(keyspaces, KsBuilt))) =>
        LET q     == ks_query
            extra == ks_args.keywords
            keys  == {"class", "replication_factor"} \cup DOMAIN extra
        IN /\ ks_error = NoError
           /\ {q[i + 1] : i \in ItemStarts(q)} = keys
           /\ Cardinality(ItemStarts(q)) = Cardinality(keys)
           /\ \A i \in ItemStarts(q) :
                 LET k == q[i + 1]
                 IN ItemValue(q, i) =
                      ValueText(k, IF k \in DOMAIN extra THEN extra[k]
                                   ELSE IF k = "class" THEN ks_args.strategy_class
                                   ELSE ks_args.replication_factor)

\* ---- a call and the catalog it started on

\* The catalog has the table as the model declares it.
OwnTable(model, tb) ==
    [keyspace_name |-> get_keyspace(model),
     columnfamily_name |-> raw_cf_name(model),
     definition |-> CreateTableStmt(model).body] \in tb

\* The row of system."IndexInfo" for index_<table>_<column>.
IndexRow(model, column) ==
    [table_name |-> get_keyspace(model),
     index_name |-> <<raw_cf_name(model), ".", "index_", raw_cf_name(model),
                      "_", column.db_field_name>>]

\* How many times the log has CREATE INDEX index_<table>_<column>.
CreateIndexCount(log, model, column) ==
    Cardinality({k \in 1..Len(log) :
        /\ log[k].stmt.kind = "CREATE INDEX"
        /\ log[k].stmt.table = raw_cf_name(model)
        /\ log[k].stmt.index = <<"index_", raw_cf_name(model), "_",
                                 column.db_field_name>>})

\* C13: a create_table call with a model that is not abstract, by a lone
\* client, that started on a catalog holding the model's table issues no CREATE TABLE and does not fail; it
\* never issues CREATE INDEX for an indexed column whose index the catalog
\* had, and never more than one for another; when it has returned it has
\* issued exactly one CREATE INDEX for each indexed column whose index was
\* missing, and every indexed column has its index.
C13_IndexPassOnExistingTable ==
    \A p \in Procs :
        (/\ op[p].fn = "create_table"
         /\ ~op[p].model.abstract
         /\ Alone(p)
         /\ OwnTable(op[p].model, prev[p].tables)) =>
            LET m    == op[p].model
                cols == indexed_columns(m)
            IN /\ ~Issued(issued[p], "CREATE TABLE")
               /\ pc[p] # "failed"
               /\ \A k \in 1..Len(cols) :
                     /\ IndexRow(m, cols[k]) \in prev[p].indexes =>
                          CreateIndexCount(issued[p], m, cols[k]) = 0
                     /\ CreateIndexCount(issued[p], m, cols[k]) <= 1
                     /\ pc[p] = "done" =>
                          /\ IndexRow(m, cols[k]) \notin prev[p].indexes =>
                               CreateIndexCount(issued[p], m, cols[k]) = 1
                          /\ IndexRow(m, cols[k]) \in indexes

\* The table was there with one of two indexes; the call created the other.
C13_Witness ==
    \E p \in Procs :
        /\ op[p].fn = "create_table" /\ pc[p] = "done" /\ Alone(p)
        /\ OwnTable(op[p].model, prev[p].tables)
        /\ \E j, k \in 1..Len(indexed_columns(op[p].model)) :
              LET cols == indexed_columns(op[p].model)
              IN /\ IndexRow(op[p].model, cols[j]) \in prev[p].indexes
                 /\ IndexRow(op[p].model, cols[k]) \notin prev[p].indexes
                 /\ CreateIndexCount(issued[p], op[p].model, cols[j]) = 0
                 /\ CreateIndexCount(issued[p], op[p].model, cols[k]) = 1
                 /\ IndexRow(op[p].model, cols[k]) \in indexes

\* Entry j of the log is a read of the keyspace names that found ks.
ReadPresent(log, j, ks) ==
    /\ log[j].stmt.kind = "SELECT keyspace_name"
    /\ ks \in log[j].rows

\* Entry j of the log is an accepted CREATE KEYSPACE ks with the default
\* settings: class SimpleStrategy, replication_factor 3, no DURABLE_WRITES.
CreatedDefault(log, j, ks) ==
    /\ log[j].stmt.kind = "CREATE KEYSPACE"
    /\ log[j].stmt.keyspace = ks
    /\ log[j].stmt.body.replication
         = [class |-> "SimpleStrategy", replication_factor |-> 3]
    /\ log[j].stmt.body.durable_writes = ""
    /\ log[j].error = NoError

\* C14: a create_table call with create_missing_keyspace=False never reads
\* the keyspace names and never issues CREATE KEYSPACE. With the flag True
\* the read of the keyspace names is the first statement of the call, it
\* comes before the read of the table names, and before every CREATE TABLE
\* the call has either read the model's keyspace as present or had its
\* CREATE KEYSPACE with the default settings accepted.
C14_KeyspaceStepByFlag ==
    \A p \in Procs :
        op[p].fn = "create_table" =>
            LET log == issued[p]
                ks  == get_keyspace(op[p].model)
            IN IF op[p].create_missing_keyspace
               THEN /\ log # <<>> => log[1].stmt.kind = "SELECT keyspace_name"
                    /\ \A k \in 1..Len(log) :
                          log[k].stmt.kind = "CREATE TABLE" =>
                              \E j \in 1..(k - 1) :
                                  \/ ReadPresent(log, j, ks)
                                  \/ CreatedDefault(log, j, ks)
               ELSE /\ ~Issued(log, "SELECT keyspace_name")
                    /\ ~Issued(log, "CREATE KEYSPACE")

\* Without the flag the call found no keyspace and its CREATE TABLE was
\* rejected; with the flag the next call created the keyspace, then the table.
C14_Witness ==
    \E p \in Procs :
        /\ prev[p].call.fn = "create_table"
        /\ ~prev[p].call.create_missing_keyspace
        /\ prev[p].status = "failed"
        /\ Issued(prev[p].issued, "CREATE TABLE")
        /\ ~Issued(prev[p].issued, "CREATE KEYSPACE")
        /\ op[p].fn = "create_table" /\ op[p].create_missing_keyspace
        /\ pc[p] = "done"
        /\ Len(issued[p]) >= 4
        /\ CreatedDefault(issued[p], 2, get_keyspace(op[p].model))
        /\ issued[p][4].stmt.kind = "CREATE TABLE"
        /\ issued[p][4].error = NoError

\* The names in the catalog the present call of p started on.
StartKeyspaceNames(p) == {r.keyspace_name : r \in prev[p].keyspaces}

StartTableNames(p, ks) ==
    {r.columnfamily_name : r \in {t \in prev[p].tables : t.keyspace_name = ks}}

\* The call of p issues a statement of this kind only when it is needed, and
\* has issued it when it is needed and the call has returned.
Decides(p, kind, needed) ==
    /\ Issued(issued[p], kind) => needed
    /\ (pc[p] = "done" /\ needed) => Issued(issued[p], kind)

\* The log has an accepted statement of this kind.
Accepted(log, kind) ==
    \E k \in 1..Len(log) : log[k].stmt.kind = kind /\ log[k].error = NoError

\* The last three calls of p were create, delete, create of the same
\* keyspace, the first two returned normally.
KeyspaceCreateDeleteCreate(p) ==
    /\ op[p].fn = "create_keyspace"
    /\ prev[p].call.fn = "delete_keyspace" /\ prev[p].status = "done"
    /\ prev[p].before.call.fn = "create_keyspace"
    /\ prev[p].before.status = "done"
    /\ prev[p].call.name = op[p].name
    /\ prev[p].before.call.name = op[p].name

\* The same for the table of a model that is not abstract.
TableCreateDeleteCreate(p) ==
    /\ op[p].fn = "create_table"
    /\ ~op[p].model.abstract
    /\ prev[p].call.fn = "delete_table" /\ prev[p].status = "done"
    /\ prev[p].before.call.fn = "create_table"
    /\ prev[p].before.status = "done"
    /\ cf_name(prev[p].call.model) = cf_name(op[p].model)
    /\ cf_name(prev[p].before.call.model) = cf_name(op[p].model)

\* C15: whatever calls a lone client made before, each call issues its
\* CREATE or DROP exactly when the catalog the call started on lacks (for
\* CREATE) or has (for DROP) the object; and the third call of create,
\* delete, create on one keyspace or one table does not fail, has its CREATE
\* statement accepted, and returns with the object in the catalog.
C15_NoMetadataCached ==
    \A p \in Procs :
        Alone(p) =>
            /\ op[p].fn = "create_keyspace" =>
                  Decides(p, "CREATE KEYSPACE",
                          op[p].name \notin StartKeyspaceNames(p))
            /\ op[p].fn = "delete_keyspace" =>
                  Decides(p, "DROP KEYSPACE",
                          op[p].name \in StartKeyspaceNames(p))
            /\ op[p].fn = "create_table" =>
                  /\ Decides(p, "CREATE TABLE",
                          raw_cf_name(op[p].model) \notin
                              StartTableNames(p, get_keyspace(op[p].model)))
                  /\ op[p].create_missing_keyspace =>
                        Decides(p, "CREATE KEYSPACE",
                                get_keyspace(op[p].model) \notin
                                    StartKeyspaceNames(p))
            /\ op[p].fn = "delete_table" =>
                  Decides(p, "DROP TABLE",
                          raw_cf_name(op[p].model) \in
                              StartTableNames(p, get_keyspace(op[p].model)))
            /\ KeyspaceCreateDeleteCreate(p) =>
                  /\ pc[p] # "failed"
                  /\ pc[p] = "done" =>
                        /\ Accepted(issued[p], "CREATE KEYSPACE")
                        /\ KeyspaceCount(op[p].name) = 1
            /\ TableCreateDeleteCreate(p) =>
                  /\ pc[p] # "failed"
                  /\ pc[p] = "done" =>
                        /\ Accepted(issued[p], "CREATE TABLE")
                        /\ TableCount(op[p].model) = 1

\* create_keyspace created it, delete_keyspace dropped it, and the third
\* call has created it again.
C15_Witness ==
    \E p \in Procs :
        /\ KeyspaceCreateDeleteCreate(p)
        /\ Accepted(prev[p].issued, "DROP KEYSPACE")
        /\ pc[p] = "done"
        /\ Accepted(issued[p], "CREATE KEYSPACE")
        /\ KeyspaceCount(op[p].name) = 1

\* The positions of the log where a CREATE INDEX was rejected.
FailedIndexAt(log) ==
    {k \in 1..Len(log) :
        log[k].stmt.kind = "CREATE INDEX" /\ log[k].error # NoError}

\* Another client is dropping a keyspace or a table.
OtherDrops(p) ==
    \E q \in Procs \ {p} : op[q].fn \in {"delete_keyspace", "delete_table"}

\* C16, in a state: when a CREATE INDEX of a create_table call was rejected,
\* it is the last statement of the call (nothing is retried, nothing is
\* dropped, no later column is tried), the call has failed with that error,
\* and, unless another client is dropping, the keyspace, the table and the
\* indexes the call created before are in the catalog.
C16_State ==
    \A p \in Procs :
        \A k \in FailedIndexAt(issued[p]) :
            LET log  == issued[p]
                m    == op[p].model
                cols == indexed_columns(m)
            IN /\ op[p].fn = "create_table"
               /\ k = Len(log)
               /\ pc[p] = "failed"
               /\ err[p] = log[k].error
               /\ ~Issued(log, "DROP TABLE") /\ ~Issued(log, "DROP KEYSPACE")
               /\ \A i \in 1..Len(cols) :
                     /\ CreateIndexCount(log, m, cols[i]) <= 1
                     /\ (/\ CreateIndexCount(log, m, cols[i]) = 1
                         /\ log[k].stmt.index # idx_name(m, cols[i])) =>
                            /\ \E j \in 1..(k - 1) :
                                  /\ log[j].stmt = CreateIndexStmt(m, cols[i])
                                  /\ log[j].error = NoError
                            /\ ~OtherDrops(p) => IndexRow(m, cols[i]) \in indexes
                     /\ log[k].stmt.index = idx_name(m, cols[i]) =>
                            \A j \in (i + 1)..Len(cols) :
                                CreateIndexCount(log, m, cols[j]) = 0
               /\ (Accepted(log, "CREATE KEYSPACE") /\ ~OtherDrops(p)) =>
                     KeyspaceCount(get_keyspace(m)) = 1
               /\ (Accepted(log, "CREATE TABLE") /\ ~OtherDrops(p)) =>
                     TableCount(m) = 1

\* C16, in a step: the step in which a CREATE INDEX fails changes nothing
\* in the catalog, and a failed call issues nothing more.
C16_Step ==
    \A p \in Procs :
        /\ (pc[p] = "ct_idx" /\ pc'[p] = "failed") =>
              /\ err'[p] # NoError
              /\ <<keyspaces, tables, indexes>>' = <<keyspaces, tables, indexes>>
        /\ (pc[p] = "failed" /\ budget'[p] = budget[p]) =>
              /\ pc'[p] = "failed"
              /\ issued'[p] = issued[p]

\* C16: a failed CREATE INDEX in create_table propagates to the caller, is
\* not retried and rolls nothing back; what the call created before stays
\* in the catalog and the indexed columns after the failing one are not
\* tried.
C16_NoRollbackOnIndexFailure == []C16_State /\ [][C16_Step]_vars

\* The call created the keyspace and the table; the CREATE INDEX of its
\* first indexed column was rejected and the second was never tried.
C16_Witness ==
    \E p \in Procs :
        LET m == op[p].model
            cols == indexed_columns(m)
        IN /\ op[p].fn = "create_table" /\ pc[p] = "failed"
           /\ FailedIndexAt(issued[p]) = {Len(issued[p])}
           /\ Accepted(issued[p], "CREATE KEYSPACE")
           /\ Accepted(issued[p], "CREATE TABLE")
           /\ KeyspaceCount(get_keyspace(m)) = 1
           /\ TableCount(m) = 1
           /\ Len(cols) = 2
           /\ CreateIndexCount(issued[p], m, cols[1]) = 1
           /\ CreateIndexCount(issued[p], m, cols[2]) = 0

\* The kinds of statement that read the catalog.
ReadKinds ==
    {"SELECT keyspace_name", "SELECT columnfamily_name", "SELECT index_name"}

\* Every statement of the log is of one of these kinds.
OnlyIssued(log, kinds) == \A k \in 1..Len(log) : log[k].stmt.kind \in kinds

\* C17: a create_table call by a lone client that started on a catalog with
\* a table of the model's name, whatever its definition, issues only catalog
\* reads and CREATE INDEX, and the table rows and keyspace rows stay as they
\* were; a create_keyspace call that started on a catalog with a keyspace of
\* that name, whatever its settings, issues only the read of the keyspace
\* names, and the whole catalog stays as it was.
C17_ExistingLeftAlone ==
    \A p \in Procs :
        Alone(p) =>
            /\ (/\ op[p].fn = "create_table"
                /\ raw_cf_name(op[p].model) \in
                     StartTableNames(p, get_keyspace(op[p].model))) =>
                  /\ OnlyIssued(issued[p], ReadKinds \cup {"CREATE INDEX"})
                  /\ tables = prev[p].tables
                  /\ keyspaces = prev[p].keyspaces
            /\ (/\ op[p].fn = "create_keyspace"
                /\ op[p].name \in StartKeyspaceNames(p)) =>
                  /\ OnlyIssued(issued[p], {"SELECT keyspace_name"})
                  /\ keyspaces = prev[p].keyspaces
                  /\ tables = prev[p].tables
                  /\ indexes = prev[p].indexes

\* create_keyspace asked for other settings than the keyspace has, then
\* create_table came with a model that declares the table differently; both
\* returned and the keyspace and the table are as they were.
C17_Witness ==
    \E p \in Procs :
        /\ prev[p].call.fn = "create_keyspace" /\ prev[p].status = "done"
        /\ prev[p].call.args.strategy_class = "NetworkTopologyStrategy"
        /\ \E r \in keyspaces :
              /\ r.keyspace_name = prev[p].call.name
              /\ r.strategy_options.class = "SimpleStrategy"
        /\ ~Issued(prev[p].issued, "CREATE KEYSPACE")
        /\ op[p].fn = "create_table" /\ pc[p] = "done"
        /\ raw_cf_name(op[p].model) \in
             StartTableNames(p, get_keyspace(op[p].model))
        /\ ~OwnTable(op[p].model, prev[p].tables)
        /\ ~OwnTable(op[p].model, tables)
        /\ TableCount(op[p].model) = 1
        /\ tables = prev[p].tables

====
